---- MODULE Spec2Model ----
(***************************************************************************)
(* Model of the gNMI notification cache (package cache, gnmiCache) of      *)
(* gnmic: the registry of per-subscription caches, the ingest path         *)
(* (Write), target removal (DeleteTarget) and the read dispatcher          *)
(* (Subscribe: Once, Sample and OnChange with heartbeat).                  *)
(*                                                                         *)
(* The path-indexed store (ocCache.Cache) and the change matcher           *)
(* (match.Match) are libraries used by the package; they are modelled at   *)
(* the call sites by their contract: a store keeps one leaf per            *)
(* (target, full path); a query visits the leaves whose path the pattern   *)
(* is a prefix of; a matcher calls every registered client whose pattern   *)
(* matches, in the writing goroutine, and the function returned by         *)
(* AddQuery returns only when no callback is running.                      *)
(***************************************************************************)
EXTENDS Bags, FiniteSets, Integers, Sequences, TLC

(***************************************************************************)
(* Bounds of the model.                                                    *)
(***************************************************************************)
MaxWrites == 2
MaxTicks == 2
MaxDeletes == 1
MaxHeartbeats == 1
MaxReadWrites == 1
MaxTime == 3
MaxMessages == 2
MaxFailures == 1
MaxBufferSize == 2

(***************************************************************************)
(* Names and values.                                                       *)
(***************************************************************************)
Subs == {"s1", "s2"}
Targets == {"t1", "t2"}
Writers == {"w1", "w2"}
NoVal == 0
Vals == {1, 2}
NoOne == "none"

\* Full paths a leaf can be stored under (prefix elems followed by path elems).
StoredPaths == {<<"a">>, <<"b">>, <<"a", "a">>, <<"a", "b">>}
Keys == Targets \X StoredPaths

IsPrefixOf(q, p) ==
  /\ Len(q) <= Len(p)
  /\ \A k \in 1..Len(q) : q[k] = "*" \/ q[k] = p[k]

RECURSIVE SetToSeq(_)
SetToSeq(S) ==
  IF S = {} THEN <<>>
  ELSE LET x == CHOOSE y \in S : TRUE IN <<x>> \o SetToSeq(S \ {x})

(***************************************************************************)
(* State.                                                                  *)
(***************************************************************************)
VARIABLES
  caches,     \* gc.caches: the subscription names of the registry
  targets,    \* targets[s]: the targets of store s (ocCache HasTarget)
  store,      \* store[s][<<t, p>>]: value of the leaf, NoVal when absent
  mu,         \* gc.m: the routine holding the registry lock, or NoOne
  queries,    \* queries[s]: registrations of matcher s (match.AddQuery)
  mlock,      \* mlock[s]: callbacks running in matcher s (its read lock)
  wr,         \* wr[w]: the Write call of goroutine w
  nwrites,    \* number of Write calls begun
  del,        \* the DeleteTarget call
  ndeletes,   \* number of DeleteTarget calls begun
  ro,         \* the ReadOpts of the Subscribe call
  ctxDone,    \* the context of the read is cancelled
  chClosed,   \* number of times the output channel was closed
  sendOnClosed, \* an item was sent on the closed channel
  out,        \* bag of the items received from the output channel
  lastSent,   \* ro.lastSent: last value sent per key, NoVal when absent
  pc,         \* pc[r]: position of routine r ("main" or the goroutine of
              \* handleOnChangeQuery for a cache)
  ret,        \* ret[r]: where handleSingleQuery returns to
  via,        \* via[r]: which call of handleSingleQuery r is running
  idx,        \* idx[r]: index in ro.Paths of the on-change goroutine
  pend,       \* pend[r]: leaves of the running baseline query not yet sent
  nreg,       \* nreg[r]: registrations made (deferred remove calls)
  obs,        \* obs[r]: r returned from the heartbeat loop on ctx.Done
  ticker,     \* ticker[r]: "none", "on" or "stopped"
  tickC,      \* tickC[r]: a tick is waiting in ticker.C
  ticks,      \* number of intervals elapsed
  psnap,      \* psnap[r]: the caches of the running handleSingleQuery
  q,          \* q[r][s]: goroutine of handleSingleQuery of r for cache s
  stamp,      \* stamp[s][<<t, p>>]: Timestamp of the notification of the leaf
  created,    \* created[s]: subCache instances created for name s
  expiration, \* gc.expiration
  rd,         \* the call of read: position, arguments, now, caches
  prod,       \* prod[s]: the goroutine of read for cache s
  merge,      \* the goroutine of read that collects the notifications
  notifications, \* notifications[s]: the mapping read builds and returns
  made,       \* ro.lastSent is not nil
  again,      \* number of Subscribe calls made after the first
  stalled,    \* the consumer of the output channel stopped receiving
  sock,       \* the UDPSock: cancelFn, limiter, buffer (messages held), size
  limC,       \* a tick is waiting in u.limiter.C
  uctx,       \* the context passed to Init and the one derived from it
  upc,        \* positions of Init, of the context watcher and of start
  watch,      \* the context the watcher waits for
  nmsgs,      \* number of messages written to the output
  nfails,     \* number of failed dials and sends
  panicked    \* Close was called with u.cancelFn nil

regVars == <<caches, targets, store, mu, stamp, created>>
matchVars == <<queries, mlock>>
ingestVars == <<wr, nwrites>>
delVars == <<del, ndeletes>>
chanVars == <<chClosed, sendOnClosed, out>>
readVars == <<ro, ctxDone, lastSent, pc, ret, via, idx, pend, nreg, obs,
              ticker, tickC, ticks, psnap, q>>
aggVars == <<expiration, rd, prod, merge, notifications>>
suppVars == <<made, again>>
consVars == <<stalled>>
coreVars == <<regVars, matchVars, ingestVars, delVars, chanVars, readVars>>
udpVars == <<sock, limC, uctx, upc, watch, nmsgs, nfails, panicked>>
nonAggVars == <<coreVars, suppVars, consVars, udpVars>>
cacheVars == <<coreVars, aggVars, suppVars, consVars>>
restVars == <<aggVars, suppVars, consVars, udpVars>>
vars == <<coreVars, restVars>>

Routines == {"main"} \cup Subs

EmptyStore == [k \in Keys |-> NoVal]

NoNotif ==
  [target |-> "", prefix |-> <<>>, update |-> <<>>, delete |-> <<>>,
   timestamp |-> 0]

IdleWrite ==
  [pc |-> "idle", sub |-> "", notif |-> NoNotif, sent |-> NoNotif,
   attempts |-> 0, on |-> "", failed |-> FALSE, i |-> 0, pend |-> <<>>,
   orphan |-> FALSE, nmatch |-> 0, id |-> 0, added |-> FALSE]

\* late records that a Write added the target of the call to a store after
\* the call took its snapshot of the registry
IdleDelete == [pc |-> "idle", name |-> "", todo |-> {}, late |-> FALSE]

(***************************************************************************)
(* gnmiCache.Write                                                         *)
(***************************************************************************)

\* lines 103-118: the notification is dropped before the registry is touched
RejectedMissingPath(n) ==
  /\ Len(n.prefix) = 0
  /\ \E k \in 1..Len(n.update) : Len(n.update[k].path) = 0

\* the validation without the check of the update paths
RejectedTargetOnly(n) == n.target = ""

Rejected(n) == n.target = "" \/ RejectedMissingPath(n)

\* lines 137-149: updates with a nil value are not written
HasValue(u) == u.val # NoVal

StripNil(n) == [n EXCEPT !.update = SelectSeq(n.update, HasValue)]

\* the test of line 150 without the deletions
IsEmptyNoUpdates(n) == Len(n.update) = 0

\* line 150
IsEmptyNotif(n) == Len(n.update) = 0 /\ Len(n.delete) = 0

FullPath(n, p) == n.prefix \o p

\* lines 97-118: entry of Write and its validation
WriteBegin(w, sub, n) ==
  /\ wr[w].pc \in {"idle", "done"}
  /\ nwrites < MaxWrites
  /\ nwrites' = nwrites + 1
  /\ wr' = [wr EXCEPT ![w] =
       [IdleWrite EXCEPT !.pc = IF Rejected(n) THEN "done" ELSE "lock",
                         !.sub = sub, !.notif = n, !.id = nwrites + 1]]
  /\ UNCHANGED <<regVars, matchVars, delVars, chanVars, readVars>>
  /\ UNCHANGED restVars

\* line 119
WriteLock(w) ==
  /\ wr[w].pc = "lock"
  /\ mu = NoOne
  /\ mu' = w
  /\ wr' = [wr EXCEPT ![w].pc = "crit"]
  /\ UNCHANGED <<caches, targets, store, stamp, created, nwrites, matchVars,
                 delVars, chanVars, readVars>>
  /\ UNCHANGED restVars

\* the lookup of line 120 never finding the cache
HasCacheNever(sub) == FALSE

\* line 120: sCache, ok := gc.caches[measName]
HasCache(sub) == sub \in caches

\* lines 127 and 132: Add is called for a new cache, and for a cache that
\* does not have the target
AddsTarget(sub, t) == ~HasCache(sub) \/ t \notin targets[sub]

\* the critical section left without gc.m.Unlock()
UnlockSkipped(holder) == holder

\* lines 135 and 450: gc.m.Unlock()
Unlock(holder) == NoOne

\* lines 120-135: create the subscription cache if absent (a new store and
\* matcher take the place of the name), add the target if the store does not
\* have it, unlock
WriteCrit(w) ==
  LET sub == wr[w].sub
      t == wr[w].notif.target
  IN /\ wr[w].pc = "crit"
     /\ mu = w
     /\ caches' = caches \cup {sub}
     /\ created' = IF HasCache(sub) THEN created
                   ELSE [created EXCEPT ![sub] = @ + 1]
     /\ targets' = [targets EXCEPT ![sub] =
                      IF HasCache(sub) THEN @ \cup {t} ELSE {t}]
     /\ store' = IF HasCache(sub) THEN store
                 ELSE [store EXCEPT ![sub] = EmptyStore]
     /\ mu' = Unlock(w)
     /\ wr' = [wr EXCEPT ![w].pc = "store", ![w].added = AddsTarget(sub, t)]
     /\ del' = [del EXCEPT !.late = @ \/ (/\ del.pc \in {"rm", "done"}
                                           /\ del.name = t)]
     /\ UNCHANGED <<stamp, nwrites, ndeletes, matchVars, chanVars, readVars>>
     /\ UNCHANGED restVars

\* ocCache GnmiUpdate, deletions: the leaves under prefix + path are removed
AfterDeletes(st, n) ==
  [k \in Keys |->
     IF /\ k[1] = n.target
        /\ \E d \in 1..Len(n.delete) : IsPrefixOf(FullPath(n, n.delete[d]), k[2])
     THEN NoVal ELSE st[k]]

\* lines 136-153: strip, drop an empty notification, else call GnmiUpdate,
\* which fails when the store does not have the target
WriteStore(w) ==
  LET sub == wr[w].sub
      n == StripNil(wr[w].notif)
  IN /\ wr[w].pc = "store"
     /\ IF IsEmptyNotif(n)
        THEN /\ wr' = [wr EXCEPT ![w].pc = "done"]
             /\ UNCHANGED store
        ELSE IF n.target \notin targets[sub]
        THEN /\ wr' = [wr EXCEPT ![w].pc = "done", ![w].attempts = @ + 1,
                                 ![w].on = sub, ![w].sent = n,
                                 ![w].failed = TRUE]
             /\ UNCHANGED store
        ELSE /\ wr' = [wr EXCEPT ![w].pc = IF Len(n.update) = 0 THEN "done"
                                           ELSE "upd",
                                 ![w].attempts = @ + 1, ![w].on = sub,
                                 ![w].sent = n, ![w].i = 1]
             /\ store' = [store EXCEPT ![sub] = AfterDeletes(@, n)]
     /\ UNCHANGED <<caches, targets, mu, stamp, created, nwrites, matchVars,
                    delVars, chanVars, readVars>>
     /\ UNCHANGED restVars

\* subCache.update, lines 80-88: the registrations of matcher s called for a
\* leaf written under target t and path p
MatchingQueries(s, t, p) ==
  {qr \in queries[s] : qr.fp[1] = t /\ IsPrefixOf(qr.fp[2], p)}

\* An item received from the output channel: Notification{Name, Notification}
\* or Notification{Name, Err}; via, by and wid record which send produced it.
Item(name, err, key, val, v, by, wid) ==
  [name |-> name, err |-> err, key |-> key, val |-> val, via |-> v,
   by |-> by, wid |-> wid]

NoKey == <<"", <<>>>>

\* ch <- item: the consumer receives the item (the channel has no buffer: the
\* send blocks while the consumer does not receive); a send on a closed
\* channel panics
Send(item) ==
  IF chClosed > 0
  THEN /\ sendOnClosed' = TRUE
       /\ UNCHANGED <<chClosed, out>>
  ELSE /\ ~stalled
       /\ out' = out (+) SetToBag({item})
       /\ UNCHANGED <<chClosed, sendOnClosed>>

\* registrations of the on-change goroutine of cache s that match a leaf
\* written under target t and path p, counted from the goroutine's progress
RegisteredFor(s, t, p) ==
  {j \in 1..nreg[s] : ro.target = t /\ IsPrefixOf(ro.paths[j], p)}

\* line 153, GnmiUpdate for update i: the leaf is written (unless the target
\* was removed meanwhile) and the matcher calls the matching clients
WriteUpd(w) ==
  LET sub == wr[w].sub
      n == wr[w].sent
      u == n.update[wr[w].i]
      p == FullPath(n, u.path)
      k == <<n.target, p>>
      ms == MatchingQueries(sub, n.target, p)
  IN /\ wr[w].pc = "upd"
     /\ store' = IF wr[w].orphan \/ k \notin Keys THEN store
                 ELSE [store EXCEPT ![sub][k] = u.val]
     /\ IF ms = {}
        THEN /\ wr' = [wr EXCEPT ![w].pc = IF wr[w].i = Len(n.update)
                                           THEN "done" ELSE "upd",
                                 ![w].i = @ + 1, ![w].nmatch = 0]
             /\ UNCHANGED mlock
        ELSE /\ wr' = [wr EXCEPT ![w].pc = "deliver",
                                 ![w].pend = SetToSeq(ms),
                                 ![w].nmatch =
                                   Cardinality(RegisteredFor(sub, n.target, p))]
             /\ mlock' = [mlock EXCEPT ![sub] = @ + 1]
     /\ stamp' = IF wr[w].orphan \/ k \notin Keys THEN stamp
                 ELSE [stamp EXCEPT ![sub][k] = n.timestamp]
     /\ UNCHANGED <<caches, targets, mu, created, queries, nwrites, delVars,
                    chanVars, readVars>>
     /\ UNCHANGED restVars

\* the item of matchClient.Update without the name of the subscription
MatchClientItemUnnamed(qr, k, val, wid) ==
  Item("", FALSE, k, val, "change", "writer", wid)

\* matchClient.Update, lines 481-492: the callback sends on the channel of
\* the read, in the goroutine of Write
MatchClientItem(qr, k, val, wid) ==
  Item(qr.name, FALSE, k, val, "change", "writer", wid)

WriteDeliver(w) ==
  LET sub == wr[w].sub
      n == wr[w].sent
      u == n.update[wr[w].i]
      k == <<n.target, FullPath(n, u.path)>>
      last == Len(wr[w].pend) = 1
  IN /\ wr[w].pc = "deliver"
     /\ Send(MatchClientItem(Head(wr[w].pend), k, u.val, wr[w].id))
     /\ wr' = [wr EXCEPT ![w].pend = Tail(@),
                         ![w].pc = IF ~last THEN "deliver"
                                   ELSE IF wr[w].i = Len(n.update) THEN "done"
                                   ELSE "upd",
                         ![w].i = IF last THEN @ + 1 ELSE @]
     /\ mlock' = IF last THEN [mlock EXCEPT ![sub] = @ - 1] ELSE mlock
     /\ UNCHANGED <<regVars, queries, nwrites, delVars, readVars>>
     /\ UNCHANGED restVars

(***************************************************************************)
(* gnmiCache.getCaches and gnmiCache.DeleteTarget                          *)
(***************************************************************************)

\* getCaches without the restriction to the names
getCachesAll(names) == caches

\* getCaches without the rule that no name selects every cache
getCachesNoDefault(names) ==
  IF names = {""} THEN caches ELSE caches \cap names

\* lines 452-465: the registry restricted to the names; all of it when no
\* name or the single name "" is given
getCaches(names) ==
  IF names = {} \/ names = {""} THEN caches ELSE caches \cap names

\* line 469, entry and gc.m.Lock() of getCaches
DeleteBegin(t) ==
  /\ del.pc \in {"idle", "done"}
  /\ ndeletes < MaxDeletes
  /\ ndeletes' = ndeletes + 1
  /\ del' = [IdleDelete EXCEPT !.pc = "lock", !.name = t]
  /\ UNCHANGED <<regVars, matchVars, ingestVars, chanVars, readVars>>
  /\ UNCHANGED restVars

DeleteLock ==
  /\ del.pc = "lock"
  /\ mu = NoOne
  /\ mu' = "del"
  /\ del' = [del EXCEPT !.pc = "snap"]
  /\ UNCHANGED <<caches, targets, store, stamp, created, ndeletes, matchVars,
                 ingestVars, chanVars, readVars>>
  /\ UNCHANGED restVars

\* line 469: the snapshot of the registry, and the unlock
DeleteSnap ==
  /\ del.pc = "snap"
  /\ mu = "del"
  /\ mu' = Unlock("del")
  /\ del' = [del EXCEPT !.todo = getCaches({}),
                        !.pc = IF getCaches({}) = {} THEN "done" ELSE "rm"]
  /\ UNCHANGED <<caches, targets, store, stamp, created, ndeletes, matchVars,
                 ingestVars, chanVars, readVars>>
  /\ UNCHANGED restVars

\* ocCache Remove: the target and its leaves are dropped; a GnmiUpdate that
\* already holds the target keeps writing to the dropped target
RemoveTarget(st, t) == [k \in Keys |-> IF k[1] = t THEN NoVal ELSE st[k]]

\* lines 470-472: one iteration of the loop (map order is arbitrary)
DeleteRemove(s) ==
  /\ del.pc = "rm"
  /\ s \in del.todo
  /\ targets' = [targets EXCEPT ![s] = @ \ {del.name}]
  /\ store' = [store EXCEPT ![s] = RemoveTarget(@, del.name)]
  /\ wr' = [w \in Writers |->
              IF /\ wr[w].pc \in {"upd", "deliver"}
                 /\ wr[w].sub = s
                 /\ wr[w].sent.target = del.name
              THEN [wr[w] EXCEPT !.orphan = TRUE] ELSE wr[w]]
  /\ del' = [del EXCEPT !.todo = @ \ {s},
                        !.pc = IF del.todo = {s} THEN "done" ELSE "rm"]
  /\ UNCHANGED <<caches, mu, stamp, created, ndeletes, nwrites, matchVars,
                 chanVars, readVars>>
  /\ UNCHANGED restVars

(***************************************************************************)
(* gnmiCache.Subscribe, subscribe                                          *)
(***************************************************************************)

\* A path of ro.Paths for which path.CompletePath returns an error
BadPath == <<"!">>

CompletePathFails(p) == p = BadPath

Off == [pc |-> "off", i |-> 0, pend |-> <<>>]

NoRead ==
  [sub |-> "", target |-> "", paths |-> <<>>, mode |-> "none", hb |-> 0,
   updatesOnly |-> FALSE, suppress |-> FALSE]

\* lines 366-373: the ReadOpts of the heartbeat of an on-change read; the
\* options handleSingleQuery runs with when called by routine r
PassOpts(r) ==
  IF r = "main" THEN ro
  ELSE [ro EXCEPT !.mode = "sample", !.updatesOnly = FALSE,
                  !.suppress = FALSE]

\* lines 171-193: the read routine is started and dispatches on the mode;
\* handleSampledQuery (lines 297-299) runs a first query unless UpdatesOnly
Subscribe(r0) ==
  /\ pc["main"] = "idle"
  /\ ro' = IF r0.mode = "onchange" THEN [r0 EXCEPT !.suppress = FALSE] ELSE r0
  /\ pc' = [pc EXCEPT !["main"] =
              CASE r0.mode = "once" -> "q_snap"
                [] r0.mode = "onchange" -> "oc_snap"
                [] r0.mode = "sample" ->
                     IF r0.updatesOnly THEN "s_ticker" ELSE "q_snap"]
  /\ ret' = [ret EXCEPT !["main"] =
               IF r0.mode = "once" THEN "close" ELSE "s_ticker"]
  /\ via' = [via EXCEPT !["main"] =
               IF r0.mode = "once" THEN "once" ELSE "first"]
  /\ UNCHANGED <<regVars, matchVars, ingestVars, delVars, chanVars, ctxDone,
                 lastSent, idx, pend, nreg, obs, ticker, tickC, ticks, psnap, q>>
  /\ UNCHANGED restVars

\* lines 171-181, a later call of Subscribe, after the channel of the
\* previous one was closed: with the ReadOpts of the previous call (the same
\* pointer, which holds lastSent) or with new ReadOpts of the same options;
\* the call makes a new channel and starts a new routine
SubscribeAgain(same) ==
  /\ pc["main"] = "closed"
  /\ again = 0
  /\ ro.mode = "once"
  /\ again' = again + 1
  /\ made' = (same /\ made)
  /\ lastSent' = IF same THEN lastSent ELSE [k \in Keys |-> NoVal]
  /\ pc' = [pc EXCEPT !["main"] = "q_snap"]
  /\ chClosed' = 0
  /\ out' = EmptyBag
  /\ UNCHANGED <<regVars, matchVars, ingestVars, delVars, sendOnClosed, ro,
                 ctxDone, ret, via, idx, pend, nreg, obs, ticker, tickC, ticks,
                 psnap, q>>
  /\ UNCHANGED <<aggVars, consVars, udpVars>>

\* the consumer of the output channel stops receiving
ConsumerStops ==
  /\ pc["main"] # "idle"
  /\ ~stalled
  /\ stalled' = TRUE
  /\ UNCHANGED <<coreVars, aggVars, suppVars, udpVars>>

\* line 184: defer close(ch)
Close ==
  /\ pc["main"] = "close"
  /\ chClosed' = chClosed + 1
  /\ pc' = [pc EXCEPT !["main"] = "closed"]
  /\ UNCHANGED <<regVars, matchVars, ingestVars, delVars, sendOnClosed, out,
                 ro, ctxDone, lastSent, ret, via, idx, pend, nreg, obs, ticker,
                 tickC, ticks, psnap, q>>
  /\ UNCHANGED restVars

\* the caller cancels the context of the read
Cancel ==
  /\ pc["main"] # "idle"
  /\ ~ctxDone
  /\ ctxDone' = TRUE
  /\ UNCHANGED <<regVars, matchVars, ingestVars, delVars, chanVars, ro,
                 lastSent, pc, ret, via, idx, pend, nreg, obs, ticker, tickC,
                 ticks, psnap, q>>
  /\ UNCHANGED restVars

\* one interval elapses: every running ticker puts a tick in its channel
\* (a tick is dropped when the previous one was not taken)
Tick ==
  /\ ticks < MaxTicks
  /\ \E r \in Routines : ticker[r] = "on"
  /\ ticks' = ticks + 1
  /\ tickC' = [r \in Routines |-> tickC[r] \/ ticker[r] = "on"]
  /\ UNCHANGED <<regVars, matchVars, ingestVars, delVars, chanVars, ro,
                 ctxDone, lastSent, pc, ret, via, idx, pend, nreg, obs, ticker,
                 psnap, q>>
  /\ UNCHANGED restVars

(***************************************************************************)
(* gnmiCache.handleSingleQuery, called by routine r                        *)
(***************************************************************************)

\* ocCache Query: the leaves of store s under target t the pattern matches
Leaves(s, t, pat) ==
  {k \in Keys : k[1] = t /\ store[s][k] # NoVal /\ IsPrefixOf(pat, k[2])}

LeafSeq(s, t, pat) ==
  LET ks == SetToSeq(Leaves(s, t, pat))
  IN [j \in 1..Len(ks) |-> [key |-> ks[j], val |-> store[s][ks[j]]]]

\* lines 201-210: getCaches (the snapshot is taken with gc.m held, and gc.m
\* is free again when it returns), then one goroutine per cache
QSnap(r) ==
  LET snap == getCaches({PassOpts(r).sub})
  IN /\ pc[r] = "q_snap"
     /\ mu = NoOne
     /\ psnap' = [psnap EXCEPT ![r] = snap]
     /\ q' = [q EXCEPT ![r] =
                [s \in Subs |-> IF s \in snap THEN [Off EXCEPT !.pc = "has"]
                                ELSE Off]]
     /\ pc' = [pc EXCEPT ![r] = "q_wait"]
     /\ UNCHANGED <<regVars, matchVars, ingestVars, delVars,
                    chanVars, ro, ctxDone, lastSent, ret, via, idx, pend, nreg,
                    obs, ticker, tickC, ticks>>
     /\ UNCHANGED restVars

\* lines 212-217
QHas(r, s) ==
  /\ q[r][s].pc = "has"
  /\ q' = [q EXCEPT ![r][s] =
             IF PassOpts(r).target \in targets[s]
                /\ Len(PassOpts(r).paths) > 0
             THEN [pc |-> "path", i |-> 1, pend |-> <<>>]
             ELSE [Off EXCEPT !.pc = "done"]]
  /\ UNCHANGED <<regVars, matchVars, ingestVars, delVars, chanVars, ro,
                 ctxDone, lastSent, pc, ret, via, idx, pend, nreg, obs, ticker,
                 tickC, ticks, psnap>>
  /\ UNCHANGED restVars

\* the goroutine goes on after the leaves of query i: rest is what is left
QAfter(r, s, rest) ==
  IF rest # <<>> THEN [q[r][s] EXCEPT !.pc = "emit", !.pend = rest]
  ELSE IF q[r][s].i = Len(PassOpts(r).paths) THEN [Off EXCEPT !.pc = "done"]
  ELSE [pc |-> "path", i |-> q[r][s].i + 1, pend |-> <<>>]

\* lines 218-225 and 285-289: CompletePath, then the query of the store,
\* which fails when the store does not have the target
QPath(r, s) ==
  LET o == PassOpts(r)
      p == o.paths[q[r][s].i]
  IN /\ q[r][s].pc = "path"
     /\ q' = [q EXCEPT ![r][s] =
                IF CompletePathFails(p) \/ o.target \notin targets[s]
                THEN [q[r][s] EXCEPT !.pc = "err"]
                ELSE QAfter(r, s, LeafSeq(s, o.target, p))]
     /\ UNCHANGED <<regVars, matchVars, ingestVars, delVars, chanVars, ro,
                    ctxDone, lastSent, pc, ret, via, idx, pend, nreg, obs,
                    ticker, tickC, ticks, psnap>>
     /\ UNCHANGED restVars

\* lines 222-223 and 287-288: the error item, and the goroutine returns
QErr(r, s) ==
  /\ q[r][s].pc = "err"
  /\ Send(Item(s, TRUE, NoKey, NoVal, via[r], r, 0))
  /\ q' = [q EXCEPT ![r][s] = [Off EXCEPT !.pc = "done"]]
  /\ UNCHANGED <<regVars, matchVars, ingestVars, delVars, ro, ctxDone,
                 lastSent, pc, ret, via, idx, pend, nreg, obs, ticker, tickC,
                 ticks, psnap>>
  /\ UNCHANGED restVars

\* the test of line 256 always true
IsAlwaysNew(k, val) == TRUE

\* lines 253-256: the value differs from the one last sent for the key
IsNewValue(k, val) == lastSent[k] = NoVal \/ lastSent[k] # val

\* lines 238-256: the visitor of the query for one leaf; without suppression
\* the leaf is sent; with suppression the goroutine finds ro.lastSent nil
\* (line 243), or looks the key up and sends the leaf only if its value is
\* new
QEmit(r, s) ==
  LET l == Head(q[r][s].pend)
  IN /\ q[r][s].pc = "emit"
     /\ IF ~PassOpts(r).suppress
        THEN /\ Send(Item(s, FALSE, l.key, l.val, via[r], r, 0))
             /\ q' = [q EXCEPT ![r][s] = QAfter(r, s, Tail(q[r][s].pend))]
        ELSE /\ q' = [q EXCEPT ![r][s] =
                        IF ~made THEN [q[r][s] EXCEPT !.pc = "make"]
                        ELSE IF IsNewValue(l.key, l.val)
                        THEN [q[r][s] EXCEPT !.pc = "send"]
                        ELSE QAfter(r, s, Tail(q[r][s].pend))]
             /\ UNCHANGED chanVars
     /\ UNCHANGED <<regVars, matchVars, ingestVars, delVars, ro, ctxDone,
                    lastSent, pc, ret, via, idx, pend, nreg, obs, ticker,
                    tickC, ticks, psnap>>
     /\ UNCHANGED restVars

\* lines 244-245: the goroutine that found ro.lastSent nil stores a new,
\* empty map (and a new lock) in ro, with no synchronisation: the map another
\* goroutine stored meanwhile is replaced; the lookup of line 254 follows
QMake(r, s) ==
  /\ q[r][s].pc = "make"
  /\ lastSent' = [k \in Keys |-> NoVal]
  /\ made' = TRUE
  /\ q' = [q EXCEPT ![r][s].pc = "emit"]
  /\ UNCHANGED <<regVars, matchVars, ingestVars, delVars, chanVars, ro,
                 ctxDone, pc, ret, via, idx, pend, nreg, obs, ticker, tickC,
                 ticks, psnap>>
  /\ UNCHANGED <<aggVars, again, consVars, udpVars>>

\* lines 257-267: the update is sent and recorded as the last value sent
QSend(r, s) ==
  LET l == Head(q[r][s].pend)
  IN /\ q[r][s].pc = "send"
     /\ Send(Item(s, FALSE, l.key, l.val, via[r], r, 0))
     /\ lastSent' = [lastSent EXCEPT ![l.key] = l.val]
     /\ q' = [q EXCEPT ![r][s] = QAfter(r, s, Tail(q[r][s].pend))]
     /\ UNCHANGED <<regVars, matchVars, ingestVars, delVars, ro, ctxDone, pc,
                    ret, via, idx, pend, nreg, obs, ticker, tickC, ticks,
                    psnap>>
     /\ UNCHANGED restVars

\* line 293: wg.Wait(), and the return to the caller
QJoin(r) ==
  /\ pc[r] = "q_wait"
  /\ \A s \in psnap[r] : q[r][s].pc = "done"
  /\ pc' = [pc EXCEPT ![r] = ret[r]]
  /\ q' = [q EXCEPT ![r] = [s \in Subs |-> Off]]
  /\ psnap' = [psnap EXCEPT ![r] = {}]
  /\ UNCHANGED <<regVars, matchVars, ingestVars, delVars, chanVars, ro,
                 ctxDone, lastSent, ret, via, idx, pend, nreg, obs, ticker,
                 tickC, ticks>>
  /\ UNCHANGED restVars

(***************************************************************************)
(* gnmiCache.handleSampledQuery, run by routine r                          *)
(***************************************************************************)

\* line 301
STicker(r) ==
  /\ pc[r] = "s_ticker"
  /\ ticker' = [ticker EXCEPT ![r] = "on"]
  /\ tickC' = [tickC EXCEPT ![r] = FALSE]
  /\ pc' = [pc EXCEPT ![r] = "s_select"]
  /\ UNCHANGED <<regVars, matchVars, ingestVars, delVars, chanVars, ro,
                 ctxDone, lastSent, ret, via, idx, pend, nreg, obs, ticks,
                 psnap, q>>
  /\ UNCHANGED restVars

\* the return on ctx.Done() without the deferred ticker.Stop()
SDoneNoStop(r) ==
  /\ pc[r] = "s_select"
  /\ ctxDone
  /\ pc' = [pc EXCEPT ![r] = IF r = "main" THEN "close" ELSE "g_path"]
  /\ idx' = [idx EXCEPT ![r] = IF r = "main" THEN @ ELSE @ + 1]
  /\ obs' = [obs EXCEPT ![r] = TRUE]
  /\ UNCHANGED <<regVars, matchVars, ingestVars, delVars, chanVars, ro,
                 ctxDone, lastSent, ret, via, pend, nreg, ticks, psnap, q,
                 ticker, tickC>>
  /\ UNCHANGED restVars

\* lines 305-307 and 302: ctx.Done() is taken, the ticker is stopped and the
\* function returns: to subscribe for "main", to line 375 of the path loop
\* for an on-change goroutine
SDone(r) ==
  /\ pc[r] = "s_select"
  /\ ctxDone
  /\ ticker' = [ticker EXCEPT ![r] = "stopped"]
  /\ tickC' = [tickC EXCEPT ![r] = FALSE]
  /\ pc' = [pc EXCEPT ![r] = IF r = "main" THEN "close" ELSE "g_path"]
  /\ idx' = [idx EXCEPT ![r] = IF r = "main" THEN @ ELSE @ + 1]
  /\ obs' = [obs EXCEPT ![r] = TRUE]
  /\ UNCHANGED <<regVars, matchVars, ingestVars, delVars, chanVars, ro,
                 ctxDone, lastSent, ret, via, pend, nreg, ticks, psnap, q>>
  /\ UNCHANGED restVars

\* lines 308-309: a tick is taken and handleSingleQuery is called
STick(r) ==
  /\ pc[r] = "s_select"
  /\ tickC[r]
  /\ tickC' = [tickC EXCEPT ![r] = FALSE]
  /\ pc' = [pc EXCEPT ![r] = "q_snap"]
  /\ ret' = [ret EXCEPT ![r] = "s_select"]
  /\ via' = [via EXCEPT ![r] = "tick"]
  /\ UNCHANGED <<regVars, matchVars, ingestVars, delVars, chanVars, ro,
                 ctxDone, lastSent, idx, pend, nreg, obs, ticker, ticks, psnap,
                 q>>
  /\ UNCHANGED restVars

(***************************************************************************)
(* gnmiCache.handleOnChangeQuery                                           *)
(***************************************************************************)

\* lines 315-323: getCaches (the snapshot is taken with gc.m held, and gc.m
\* is free again when it returns), then one goroutine per cache
OcSnap ==
  LET snap == getCaches({ro.sub})
  IN /\ pc["main"] = "oc_snap"
     /\ mu = NoOne
     /\ pc' = [r \in Routines |->
                 IF r = "main" THEN "oc_wait"
                 ELSE IF r \in snap THEN "g_has" ELSE pc[r]]
     /\ UNCHANGED <<regVars, matchVars, ingestVars, delVars,
                    chanVars, ro, ctxDone, lastSent, ret, via, idx, pend, nreg,
                    obs, ticker, tickC, ticks, psnap, q>>
     /\ UNCHANGED restVars

\* lines 325-330
GHas(s) ==
  /\ pc[s] = "g_has"
  /\ pc' = [pc EXCEPT ![s] = IF ro.target \in targets[s] THEN "g_path"
                             ELSE "done"]
  /\ idx' = [idx EXCEPT ![s] = 1]
  /\ UNCHANGED <<regVars, matchVars, ingestVars, delVars, chanVars, ro,
                 ctxDone, lastSent, ret, via, pend, nreg, obs, ticker, tickC,
                 ticks, psnap, q>>
  /\ UNCHANGED restVars

\* lines 331-353: the next path of the loop: CompletePath and, unless
\* UpdatesOnly, the query of the cached values; after the last path the
\* goroutine waits for the context (line 377)
GPath(s) ==
  LET p == ro.paths[idx[s]]
  IN /\ pc[s] = "g_path"
     /\ IF idx[s] > Len(ro.paths)
        THEN /\ pc' = [pc EXCEPT ![s] = "g_wait"]
             /\ UNCHANGED pend
        ELSE IF CompletePathFails(p)
                \/ (~ro.updatesOnly /\ ro.target \notin targets[s])
        THEN /\ pc' = [pc EXCEPT ![s] = "g_err"]
             /\ UNCHANGED pend
        ELSE IF ro.updatesOnly \/ Leaves(s, ro.target, p) = {}
        THEN /\ pc' = [pc EXCEPT ![s] = "g_reg"]
             /\ UNCHANGED pend
        ELSE /\ pc' = [pc EXCEPT ![s] = "g_base"]
             /\ pend' = [pend EXCEPT ![s] = LeafSeq(s, ro.target, p)]
     /\ UNCHANGED <<regVars, matchVars, ingestVars, delVars, chanVars, ro,
                    ctxDone, lastSent, ret, via, idx, nreg, obs, ticker, tickC,
                    ticks, psnap, q>>
     /\ UNCHANGED restVars

\* line 344: a cached value is sent
GBase(s) ==
  LET l == Head(pend[s])
  IN /\ pc[s] = "g_base"
     /\ Send(Item(s, FALSE, l.key, l.val, "baseline", s, 0))
     /\ pend' = [pend EXCEPT ![s] = Tail(@)]
     /\ pc' = [pc EXCEPT ![s] = IF Len(pend[s]) = 1 THEN "g_reg" ELSE "g_base"]
     /\ UNCHANGED <<regVars, matchVars, ingestVars, delVars, ro, ctxDone,
                    lastSent, ret, via, idx, nreg, obs, ticker, tickC, ticks,
                    psnap, q>>
     /\ UNCHANGED restVars

\* lines 335-336 and 350-351: the error item, and the goroutine returns
GErr(s) ==
  /\ pc[s] = "g_err"
  /\ Send(Item(s, TRUE, NoKey, NoVal, "baseline", s, 0))
  /\ pc' = [pc EXCEPT ![s] = "g_remove"]
  /\ UNCHANGED <<regVars, matchVars, ingestVars, delVars, ro, ctxDone,
                 lastSent, ret, via, idx, pend, nreg, obs, ticker, tickC,
                 ticks, psnap, q>>
  /\ UNCHANGED restVars

\* lines 355-360: the registered pattern and its client
Registration(s, j) ==
  [fp |-> <<ro.target, ro.paths[j]>>, name |-> s, id |-> j]

\* lines 354-374: the pattern is registered (AddQuery takes the lock of the
\* matcher); with a heartbeat interval the goroutine then runs
\* handleSampledQuery, else it goes to the next path
GReg(s) ==
  /\ pc[s] = "g_reg"
  /\ mlock[s] = 0
  /\ queries' = [queries EXCEPT ![s] = @ \cup {Registration(s, idx[s])}]
  /\ nreg' = [nreg EXCEPT ![s] = @ + 1]
  /\ IF ro.hb > 0
     THEN /\ pc' = [pc EXCEPT ![s] = "q_snap"]
          /\ ret' = [ret EXCEPT ![s] = "s_ticker"]
          /\ via' = [via EXCEPT ![s] = "first"]
          /\ UNCHANGED idx
     ELSE /\ pc' = [pc EXCEPT ![s] = "g_path"]
          /\ idx' = [idx EXCEPT ![s] = @ + 1]
          /\ UNCHANGED <<ret, via>>
  /\ UNCHANGED <<regVars, mlock, ingestVars, delVars, chanVars, ro, ctxDone,
                 lastSent, pend, obs, ticker, tickC, ticks, psnap, q>>
  /\ UNCHANGED restVars

\* lines 377-378: for range ctx.Done() ends when the context is cancelled
GWait(s) ==
  /\ pc[s] = "g_wait"
  /\ ctxDone
  /\ pc' = [pc EXCEPT ![s] = "g_remove"]
  /\ UNCHANGED <<regVars, matchVars, ingestVars, delVars, chanVars, ro,
                 ctxDone, lastSent, ret, via, idx, pend, nreg, obs, ticker,
                 tickC, ticks, psnap, q>>
  /\ UNCHANGED restVars

\* wg.Done() without the deferred remove calls
GRemoveNone(s) ==
  /\ pc[s] = "g_remove"
  /\ pc' = [pc EXCEPT ![s] = "done"]
  /\ UNCHANGED <<regVars, matchVars, ingestVars, delVars, chanVars, ro,
                 ctxDone, lastSent, ret, via, idx, pend, nreg, obs, ticker,
                 tickC, ticks, psnap, q>>
  /\ UNCHANGED restVars

\* lines 361 and 324: the deferred remove calls, last registered first (each
\* takes the lock of the matcher), then wg.Done()
GRemove(s) ==
  /\ pc[s] = "g_remove"
  /\ IF nreg[s] = 0
     THEN /\ pc' = [pc EXCEPT ![s] = "done"]
          /\ UNCHANGED <<queries, nreg>>
     ELSE /\ mlock[s] = 0
          /\ queries' = [queries EXCEPT ![s] = @ \ {Registration(s, nreg[s])}]
          /\ nreg' = [nreg EXCEPT ![s] = @ - 1]
          /\ UNCHANGED pc
  /\ UNCHANGED <<regVars, mlock, ingestVars, delVars, chanVars, ro, ctxDone,
                 lastSent, ret, via, idx, pend, obs, ticker, tickC, ticks,
                 psnap, q>>
  /\ UNCHANGED restVars

\* line 381: wg.Wait()
OcJoin ==
  /\ pc["main"] = "oc_wait"
  /\ \A s \in Subs : pc[s] \in {"off", "done"}
  /\ pc' = [pc EXCEPT !["main"] = "close"]
  /\ UNCHANGED <<regVars, matchVars, ingestVars, delVars, chanVars, ro,
                 ctxDone, lastSent, ret, via, idx, pend, nreg, obs, ticker,
                 tickC, ticks, psnap, q>>
  /\ UNCHANGED restVars

(***************************************************************************)
(* gnmiCache.read (Read, ReadAll)                                          *)
(***************************************************************************)
IdleRead ==
  [pc |-> "idle", sub |-> "", target |-> "", path |-> <<>>, now |-> 0,
   closed |-> FALSE, result |-> [s \in Subs |-> <<>>]]

NoProd == [pc |-> "off", pend |-> <<>>, visited |-> <<>>]

NoLeaf == [key |-> NoKey, val |-> NoVal, ts |-> 0]

IdleMerge == [pc |-> "off", name |-> "", got |-> NoLeaf]

\* ocCache Query of read: the leaves of store s the pattern matches, under
\* target t or, for "*", under every target
AggLeaves(s, t, pat) ==
  {k \in Keys : /\ t = "*" \/ k[1] = t
                /\ store[s][k] # NoVal
                /\ IsPrefixOf(pat, k[2])}

AggLeafSeq(s, t, pat) ==
  LET ks == SetToSeq(AggLeaves(s, t, pat))
  IN [j \in 1..Len(ks) |->
        [key |-> ks[j], val |-> store[s][ks[j]], ts |-> stamp[s][ks[j]]]]

\* lines 424-427: the notification is older than now minus the expiration
IsExpired(ts) == expiration > 0 /\ ts < rd.now - expiration

\* lines 387-404: the channel, the mapping and the merge goroutine are
\* made, "*" stands for every subscription, and the time is taken
ReadBegin(sub, target, p, now) ==
  /\ rd.pc = "idle"
  /\ rd' = [IdleRead EXCEPT !.pc = "snap",
                            !.sub = IF sub = "*" THEN "" ELSE sub,
                            !.target = target, !.path = p, !.now = now]
  /\ merge' = [IdleMerge EXCEPT !.pc = "recv"]
  /\ notifications' = [s \in Subs |-> <<>>]
  /\ UNCHANGED <<expiration, prod>>
  /\ UNCHANGED nonAggVars

\* lines 405-410: getCaches (gc.m is free again when it returns), then one
\* goroutine per cache
AggSnap ==
  LET snap == getCaches({rd.sub})
  IN /\ rd.pc = "snap"
     /\ mu = NoOne
     /\ prod' = [s \in Subs |-> IF s \in snap THEN [NoProd EXCEPT !.pc = "path"]
                                ELSE NoProd]
     /\ rd' = [rd EXCEPT !.pc = "wait"]
     /\ UNCHANGED <<expiration, merge, notifications>>
     /\ UNCHANGED nonAggVars

\* lines 412-417 and 435-438: CompletePath, then the query of the store; a
\* failure of either is logged and the goroutine returns
ProdQuery(s) ==
  LET ls == AggLeafSeq(s, rd.target, rd.path)
  IN /\ prod[s].pc = "path"
     /\ prod' = [prod EXCEPT ![s] =
                   IF \/ CompletePathFails(rd.path)
                      \/ rd.target # "*" /\ rd.target \notin targets[s]
                      \/ ls = <<>>
                   THEN [NoProd EXCEPT !.pc = "done"]
                   ELSE [pc |-> "visit", pend |-> ls, visited |-> ls]]
     /\ UNCHANGED <<expiration, rd, merge, notifications>>
     /\ UNCHANGED nonAggVars

\* lines 418-434: the visitor for one leaf: an expired notification is
\* skipped, another one is sent on the channel, which has no buffer: the send
\* is the receive of the merge goroutine (line 393)
ProdVisit(s) ==
  LET l == Head(prod[s].pend)
      rest == Tail(prod[s].pend)
  IN /\ prod[s].pc = "visit"
     /\ IF IsExpired(l.ts)
        THEN UNCHANGED merge
        ELSE /\ merge.pc = "recv"
             /\ ~rd.closed
             /\ merge' = [pc |-> "append", name |-> s, got |-> l]
     /\ prod' = [prod EXCEPT ![s].pend = rest,
                             ![s].pc = IF rest = <<>> THEN "done" ELSE "visit"]
     /\ UNCHANGED <<expiration, rd, notifications>>
     /\ UNCHANGED nonAggVars

\* lines 394-397: the received notification is appended under its name
MergeAppend ==
  /\ merge.pc = "append"
  /\ notifications' =
       [notifications EXCEPT ![merge.name] = Append(@, merge.got)]
  /\ merge' = [IdleMerge EXCEPT !.pc = "recv"]
  /\ UNCHANGED <<expiration, rd, prod>>
  /\ UNCHANGED nonAggVars

\* lines 393 and 399: the channel is closed, the loop ends, close(doneCh)
MergeDone ==
  /\ merge.pc = "recv"
  /\ rd.closed
  /\ merge' = [merge EXCEPT !.pc = "done"]
  /\ UNCHANGED <<expiration, rd, prod, notifications>>
  /\ UNCHANGED nonAggVars

\* lines 441-442: wg.Wait() and close(notificationChan)
AggClose ==
  /\ rd.pc = "wait"
  /\ \A s \in Subs : prod[s].pc \in {"off", "done"}
  /\ rd' = [rd EXCEPT !.pc = "drain", !.closed = TRUE]
  /\ UNCHANGED <<expiration, prod, merge, notifications>>
  /\ UNCHANGED nonAggVars

\* the return without the wait for doneCh
AggReturnNoDrain ==
  /\ rd.pc = "drain"
  /\ rd' = [rd EXCEPT !.pc = "returned", !.result = notifications]
  /\ UNCHANGED <<expiration, prod, merge, notifications>>
  /\ UNCHANGED nonAggVars

\* lines 444-445: <-doneCh, and the mapping is returned
AggReturn ==
  /\ rd.pc = "drain"
  /\ merge.pc = "done"
  /\ rd' = [rd EXCEPT !.pc = "returned", !.result = notifications]
  /\ UNCHANGED <<expiration, prod, merge, notifications>>
  /\ UNCHANGED nonAggVars

(***************************************************************************)
(* UDPSock (outputs/udp_output): Init, Write, Close and the worker start   *)
(***************************************************************************)
NoSock == [cancelFn |-> "nil", limiter |-> "nil", buffer |-> 0, size |-> 0]

\* ctx.Done() of the context derived at line 108: its cancel function was
\* called, or the context passed to Init is cancelled
DerivedDone == sock.cancelFn = "set" /\ (uctx.cancelled \/ uctx.parent)

\* lines 84-103: the configuration is decoded, the buffer and, with a rate,
\* the limiter are made
UInit(rate, size) ==
  /\ ~panicked
  /\ upc.init = "idle"
  /\ sock' = [sock EXCEPT !.size = size,
                    !.limiter = IF rate > 0 THEN "on" ELSE "nil"]
  /\ upc' = [upc EXCEPT !.init = "go_watch"]
  /\ UNCHANGED <<limC, uctx, watch, nmsgs, nfails, panicked>>
  /\ UNCHANGED cacheVars

\* lines 104-107: the goroutine that waits for the context is started
UInitWatch ==
  /\ ~panicked
  /\ upc.init = "go_watch"
  /\ upc' = [upc EXCEPT !.init = "derive", !.watcher = "eval"]
  /\ UNCHANGED <<sock, limC, uctx, watch, nmsgs, nfails, panicked>>
  /\ UNCHANGED cacheVars

\* line 108: ctx, u.cancelFn = context.WithCancel(ctx)
UInitDerive ==
  /\ ~panicked
  /\ upc.init = "derive"
  /\ sock' = [sock EXCEPT !.cancelFn = "set"]
  /\ upc' = [upc EXCEPT !.init = "go_start"]
  /\ UNCHANGED <<limC, uctx, watch, nmsgs, nfails, panicked>>
  /\ UNCHANGED cacheVars

\* lines 109-114: go u.start(ctx), and Init returns
UInitStart ==
  /\ ~panicked
  /\ upc.init = "go_start"
  /\ upc' = [upc EXCEPT !.init = "done", !.worker = "dial"]
  /\ UNCHANGED <<sock, limC, uctx, watch, nmsgs, nfails, panicked>>
  /\ UNCHANGED cacheVars

\* line 105, ctx.Done(): the goroutine reads the variable ctx that line 108
\* assigns, with no synchronisation: it waits for the context passed to
\* Init or for the derived one
WatchEval ==
  /\ ~panicked
  /\ upc.watcher = "eval"
  /\ watch' = IF sock.cancelFn = "nil" THEN "parent" ELSE "derived"
  /\ upc' = [upc EXCEPT !.watcher = "wait"]
  /\ UNCHANGED <<sock, limC, uctx, nmsgs, nfails, panicked>>
  /\ UNCHANGED cacheVars

\* line 105: <-ctx.Done() returns
WatchDone ==
  /\ ~panicked
  /\ upc.watcher = "wait"
  /\ \/ watch = "parent" /\ uctx.parent
     \/ watch = "derived" /\ DerivedDone
  /\ upc' = [upc EXCEPT !.watcher = "close"]
  /\ UNCHANGED <<sock, limC, uctx, watch, nmsgs, nfails, panicked>>
  /\ UNCHANGED cacheVars

\* Close, lines 131-137, with u.cancelFn set: the derived context is
\* cancelled and the limiter stopped (Stop does not close limiter.C)
Closed(sk) ==
  [sk EXCEPT !.limiter = IF @ = "nil" THEN "nil" ELSE "stopped"]

\* line 106: the watcher calls Close; calling the nil u.cancelFn panics
WatchClose ==
  /\ ~panicked
  /\ upc.watcher = "close"
  /\ IF sock.cancelFn = "nil"
     THEN /\ panicked' = TRUE
          /\ upc' = [upc EXCEPT !.watcher = "panic"]
          /\ UNCHANGED <<sock, uctx>>
     ELSE /\ sock' = Closed(sock)
          /\ uctx' = [uctx EXCEPT !.cancelled = TRUE]
          /\ upc' = [upc EXCEPT !.watcher = "done"]
          /\ UNCHANGED panicked
  /\ UNCHANGED <<limC, watch, nmsgs, nfails>>
  /\ UNCHANGED cacheVars

\* lines 153-169, DIAL: return when the context is done; else resolve and
\* dial, which fail or succeed
UDial(ok) ==
  /\ ~panicked
  /\ upc.worker = "dial"
  /\ IF DerivedDone
     THEN /\ upc' = [upc EXCEPT !.worker = "closing"]
          /\ UNCHANGED nfails
     ELSE IF ok
     THEN /\ upc' = [upc EXCEPT !.worker = "select"]
          /\ UNCHANGED nfails
     ELSE /\ nfails < MaxFailures
          /\ nfails' = nfails + 1
          /\ upc' = [upc EXCEPT !.worker = "sleep"]
  /\ UNCHANGED <<sock, limC, uctx, watch, nmsgs, panicked>>
  /\ UNCHANGED cacheVars

\* lines 161-162, 167-168 and 181-182: time.Sleep returns, goto DIAL
USleep ==
  /\ ~panicked
  /\ upc.worker = "sleep"
  /\ upc' = [upc EXCEPT !.worker = "dial"]
  /\ UNCHANGED <<sock, limC, uctx, watch, nmsgs, nfails, panicked>>
  /\ UNCHANGED cacheVars

\* lines 172-173: the select takes ctx.Done()
USelectDone ==
  /\ ~panicked
  /\ upc.worker = "select"
  /\ DerivedDone
  /\ upc' = [upc EXCEPT !.worker = "closing"]
  /\ UNCHANGED <<sock, limC, uctx, watch, nmsgs, nfails, panicked>>
  /\ UNCHANGED cacheVars

\* lines 174-177: the select takes a message from the buffer; with a
\* limiter the worker then waits for a tick
USelectTake ==
  /\ ~panicked
  /\ upc.worker = "select"
  /\ sock.buffer > 0
  /\ sock' = [sock EXCEPT !.buffer = @ - 1]
  /\ upc' = [upc EXCEPT !.worker = IF sock.limiter = "nil" THEN "send"
                                   ELSE "limit"]
  /\ UNCHANGED <<limC, uctx, watch, nmsgs, nfails, panicked>>
  /\ UNCHANGED cacheVars

\* line 176: <-u.limiter.C
ULimit ==
  /\ ~panicked
  /\ upc.worker = "limit"
  /\ limC
  /\ limC' = FALSE
  /\ upc' = [upc EXCEPT !.worker = "send"]
  /\ UNCHANGED <<sock, uctx, watch, nmsgs, nfails, panicked>>
  /\ UNCHANGED cacheVars

\* lines 178-183: u.conn.Write succeeds, or fails and the worker redials
USend(ok) ==
  /\ ~panicked
  /\ upc.worker = "send"
  /\ IF ok
     THEN /\ upc' = [upc EXCEPT !.worker = "select"]
          /\ UNCHANGED nfails
     ELSE /\ nfails < MaxFailures
          /\ nfails' = nfails + 1
          /\ upc' = [upc EXCEPT !.worker = "sleep"]
  /\ UNCHANGED <<sock, limC, uctx, watch, nmsgs, panicked>>
  /\ UNCHANGED cacheVars

\* line 152: the deferred Close of start, which then has returned
UDeferredClose ==
  /\ ~panicked
  /\ upc.worker = "closing"
  /\ sock' = Closed(sock)
  /\ uctx' = [uctx EXCEPT !.cancelled = TRUE]
  /\ upc' = [upc EXCEPT !.worker = "done"]
  /\ UNCHANGED <<limC, watch, nmsgs, nfails, panicked>>
  /\ UNCHANGED cacheVars

\* the owner of the output calls Close after Init returned
UClose ==
  /\ ~panicked
  /\ upc.init = "done"
  /\ ~uctx.cancelled
  /\ sock' = Closed(sock)
  /\ uctx' = [uctx EXCEPT !.cancelled = TRUE]
  /\ UNCHANGED <<limC, upc, watch, nmsgs, nfails, panicked>>
  /\ UNCHANGED cacheVars

\* the context passed to Init is cancelled
UCancel ==
  /\ ~panicked
  /\ ~uctx.parent
  /\ uctx' = [uctx EXCEPT !.parent = TRUE]
  /\ UNCHANGED <<sock, limC, upc, watch, nmsgs, nfails, panicked>>
  /\ UNCHANGED cacheVars

\* the limiter ticks: a tick is put in limiter.C unless one is waiting
UTick ==
  /\ ~panicked
  /\ sock.limiter = "on"
  /\ ~limC
  /\ limC' = TRUE
  /\ UNCHANGED <<sock, uctx, upc, watch, nmsgs, nfails, panicked>>
  /\ UNCHANGED cacheVars

\* UDPSock.Write, lines 117-127: the marshalled message is put in the buffer
UWrite ==
  /\ ~panicked
  /\ upc.init = "done"
  /\ nmsgs < MaxMessages
  /\ sock.buffer < sock.size
  /\ sock' = [sock EXCEPT !.buffer = @ + 1]
  /\ nmsgs' = nmsgs + 1
  /\ UNCHANGED <<limC, uctx, upc, watch, nfails, panicked>>
  /\ UNCHANGED cacheVars

(***************************************************************************)
(* Initial states and inputs                                               *)
(***************************************************************************)
MaxUpdates == 2

SeqsUpTo(S, n) == UNION {[1..m -> S] : m \in 0..n}

\* the notifications written by w1: with and without target, prefix, paths,
\* values and deletions
IngestUpdates == [path : {<<>>, <<"b">>}, val : {NoVal, 1}]

IngestNotifs ==
  [target : {"", "t1"}, prefix : {<<>>, <<"a">>},
   update : SeqsUpTo(IngestUpdates, MaxUpdates),
   delete : {<<>>, << <<"b">> >>}, timestamp : {0}]

\* a notification with one update of path p and value v for target t
OneUpdate(t, p, v) ==
  [target |-> t, prefix |-> <<>>, update |-> <<[path |-> p, val |-> v]>>,
   delete |-> <<>>, timestamp |-> 0]

\* the notifications written by w2
PlainNotifs == {OneUpdate("t1", <<"b">>, v) : v \in Vals}

\* the registry after earlier writes: caches c, targets t, leaves st with
\* the timestamps sp
InitStamped(c, t, st, sp) ==
  /\ caches = c
  /\ targets = t
  /\ store = st
  /\ mu = NoOne
  /\ queries = [s \in Subs |-> {}]
  /\ mlock = [s \in Subs |-> 0]
  /\ wr = [w \in Writers |-> IdleWrite]
  /\ nwrites = 0
  /\ del = IdleDelete
  /\ ndeletes = 0
  /\ stamp = sp
  /\ created = [s \in Subs |-> IF s \in c THEN 1 ELSE 0]

InitRegistry(c, t, st) ==
  InitStamped(c, t, st, [s \in Subs |-> [k \in Keys |-> 0]])

\* no Subscribe call was made
InitDispatcher ==
  /\ ro = NoRead
  /\ ctxDone = FALSE
  /\ chClosed = 0
  /\ sendOnClosed = FALSE
  /\ out = EmptyBag
  /\ lastSent = [k \in Keys |-> NoVal]
  /\ pc = [r \in Routines |-> IF r = "main" THEN "idle" ELSE "off"]
  /\ ret = [r \in Routines |-> "none"]
  /\ via = [r \in Routines |-> "none"]
  /\ idx = [r \in Routines |-> 0]
  /\ pend = [r \in Routines |-> <<>>]
  /\ nreg = [r \in Routines |-> 0]
  /\ obs = [r \in Routines |-> FALSE]
  /\ ticker = [r \in Routines |-> "none"]
  /\ tickC = [r \in Routines |-> FALSE]
  /\ ticks = 0
  /\ psnap = [r \in Routines |-> {}]
  /\ q = [r \in Routines |-> [s \in Subs |-> Off]]

\* no call of read is under way; gc.expiration is e
InitAgg(e) ==
  /\ expiration = e
  /\ rd = IdleRead
  /\ prod = [s \in Subs |-> NoProd]
  /\ merge = IdleMerge
  /\ notifications = [s \in Subs |-> <<>>]

\* the UDPSock made by the function registered at lines 24-29
InitUdp ==
  /\ sock = NoSock
  /\ limC = FALSE
  /\ uctx = [parent |-> FALSE, cancelled |-> FALSE]
  /\ upc = [init |-> "idle", watcher |-> "off", worker |-> "off"]
  /\ watch = "none"
  /\ nmsgs = 0
  /\ nfails = 0
  /\ panicked = FALSE

\* ro.lastSent is nil, the consumer receives, no UDP output is started
InitQuiet ==
  /\ made = FALSE
  /\ again = 0
  /\ stalled = FALSE
  /\ InitUdp

InitRest == InitAgg(0) /\ InitQuiet

InitRead == InitDispatcher /\ InitRest

\* newGNMICache, lines 60-64: the registry is empty
InitEmpty ==
  /\ InitRegistry({}, [s \in Subs |-> {}], [s \in Subs |-> EmptyStore])
  /\ InitRead

(***************************************************************************)
(* Ingest: two goroutines call Write while DeleteTarget runs               *)
(***************************************************************************)
WriteSteps(w) ==
  \/ WriteLock(w)
  \/ WriteCrit(w)
  \/ WriteStore(w)
  \/ WriteUpd(w)

DeleteSteps ==
  \/ DeleteLock
  \/ DeleteSnap
  \/ \E s \in Subs : DeleteRemove(s)

NextIngest ==
  \/ \E s \in Subs, n \in IngestNotifs : WriteBegin("w1", s, n)
  \/ \E s \in Subs, n \in PlainNotifs : WriteBegin("w2", s, n)
  \/ \E w \in Writers : WriteSteps(w)

SpecIngest == InitEmpty /\ [][NextIngest]_vars

(***************************************************************************)
(* Reads: one Subscribe call over a registry filled by earlier writes,     *)
(* while a goroutine writes, time passes and the context is cancelled      *)
(***************************************************************************)

\* registries reached by writes of single updates for t1: s1 holds a value
\* under a, s2 is absent, or holds t1 without data, or holds a or b
FilledStore(ps) ==
  [k \in Keys |-> IF k[1] = "t1" /\ k[2] \in ps THEN 1 ELSE NoVal]

InitFilled ==
  /\ InitRead
  /\ \/ InitRegistry({"s1"}, [s \in Subs |-> IF s = "s1" THEN {"t1"} ELSE {}],
                      [s \in Subs |-> IF s = "s1" THEN FilledStore({<<"a">>})
                                      ELSE EmptyStore])
     \/ \E ps \in {{}, {<<"a">>}, {<<"b">>}} :
          InitRegistry(Subs, [s \in Subs |-> {"t1"}],
                       [s \in Subs |-> IF s = "s1" THEN FilledStore({<<"a">>})
                                       ELSE FilledStore(ps)])

ReadOpts(mode, sub, paths, hb, uo, sr) ==
  [sub |-> sub, target |-> "t1", paths |-> paths, mode |-> mode, hb |-> hb,
   updatesOnly |-> uo, suppress |-> sr]

OnePath == {<< <<"a">> >>, << <<"*">> >>}
\* s1 holds a value under a; s2 is absent or holds t1 without data
InitPair ==
  /\ InitRead
  /\ \E c \in {{"s1"}, Subs} :
       InitRegistry(c, [s \in Subs |-> IF s \in c THEN {"t1"} ELSE {}],
                    [s \in Subs |-> IF s = "s1" THEN FilledStore({<<"a">>})
                                    ELSE EmptyStore])

DisjointPaths == {<< <<"a">>, <<"b">> >>}
OverlappingPaths == {<< <<"a">>, <<"*">> >>}

\* the notifications written while an on-change read runs
ChangeNotifs == {OneUpdate("t1", p, 2) : p \in {<<"a">>, <<"b">>}}

QSteps(r) ==
  \/ QSnap(r)
  \/ QJoin(r)
  \/ \E s \in Subs : QHas(r, s) \/ QPath(r, s) \/ QEmit(r, s)

SampleSteps(r) ==
  \/ STicker(r)
  \/ SDone(r)
  \/ STick(r)

OnChangeSteps ==
  \/ OcSnap
  \/ OcJoin
  \/ \E s \in Subs : GHas(s) \/ GPath(s) \/ GBase(s) \/ GReg(s) \/ GWait(s)
                       \/ GRemove(s)

(***************************************************************************)
(* On-change reads with a heartbeat, no write                              *)
(***************************************************************************)
HeartbeatInputs ==
  {ReadOpts("onchange", "", ps, 1, uo, FALSE) :
     ps \in OnePath \cup DisjointPaths, uo \in BOOLEAN}

NextHeartbeat ==
  \/ \E r0 \in HeartbeatInputs : Subscribe(r0)
  \/ \E r \in Subs : QSteps(r) \/ SampleSteps(r)
  \/ OnChangeSteps
  \/ Close
  \/ Cancel
  \/ ticks < MaxHeartbeats /\ Tick

SpecHeartbeat == InitFilled /\ [][NextHeartbeat]_vars

(***************************************************************************)
(* On-change reads without heartbeat, while a goroutine writes             *)
(***************************************************************************)
ChangeInputs ==
  {ReadOpts("onchange", sub, ps, 0, uo, FALSE) :
     sub \in {""}, ps \in OnePath \cup OverlappingPaths, uo \in BOOLEAN}

NextChange ==
  \/ \E r0 \in ChangeInputs : Subscribe(r0)
  \/ OnChangeSteps
  \/ Close
  \/ Cancel
  \/ \E s \in Subs, n \in ChangeNotifs : WriteBegin("w1", s, n)
  \/ WriteSteps("w1")
  \/ WriteDeliver("w1")

SpecChange == InitFilled /\ [][NextChange]_vars

(***************************************************************************)
(* Once reads over a registry that does not change meanwhile               *)
(***************************************************************************)

\* what earlier writes and target removals leave in a store: no target, or
\* t1 with any of the leaves a and b
OnceStores == {{}, {<<"a">>}, {<<"b">>}, {<<"a">>, <<"b">>}}

InitOnce ==
  /\ InitRead
  /\ \E c \in SUBSET Subs :
     \E tg \in [Subs -> {{}, {"t1"}}], ps \in [Subs -> OnceStores] :
       /\ \A s \in Subs : tg[s] # {} => s \in c
       /\ \A s \in Subs : ps[s] # {} => tg[s] # {}
       /\ InitRegistry(c, tg, [s \in Subs |-> FilledStore(ps[s])])

OnceInputs ==
  {[ReadOpts("once", sub, ps, 0, FALSE, sr) EXCEPT !.target = t] :
     sub \in {"", "s1"}, t \in Targets,
     ps \in OnePath \cup {<< <<"a">>, <<"b">> >>}, sr \in BOOLEAN}

NextOnce ==
  \/ \E r0 \in OnceInputs : Subscribe(r0)
  \/ QSteps("main")
  \/ \E s \in Subs : QSend("main", s) \/ QMake("main", s)
  \/ Close

SpecOnce == InitOnce /\ [][NextOnce]_vars

(***************************************************************************)
(* Two Once reads, one after the other, over a registry that does not      *)
(* change: the second Subscribe call is given the ReadOpts of the first or *)
(* new ones                                                                *)
(***************************************************************************)
ReuseInputs ==
  {ReadOpts("once", sub, ps, 0, FALSE, sr) :
     sub \in {"", "s1"}, ps \in OnePath, sr \in BOOLEAN}

NextReuse ==
  \/ \E r0 \in ReuseInputs : Subscribe(r0)
  \/ \E same \in BOOLEAN : SubscribeAgain(same)
  \/ QSteps("main")
  \/ \E s \in Subs : QSend("main", s) \/ QMake("main", s)
  \/ Close

SpecReuse == InitOnce /\ [][NextReuse]_vars

(***************************************************************************)
(* Target removal: Write calls that begin before DeleteTarget returns, and *)
(* a Once read that starts after it returned                               *)
(***************************************************************************)
InitDelete ==
  /\ InitRead
  /\ InitRegistry({"s1"}, [s \in Subs |-> IF s = "s1" THEN {"t1"} ELSE {}],
                  [s \in Subs |-> IF s = "s1" THEN FilledStore({<<"b">>})
                                  ELSE EmptyStore])

DeleteReadInputs == {ReadOpts("once", "", << <<"*">> >>, 0, FALSE, FALSE)}

NextDelete ==
  \/ \E w \in Writers, s \in Subs, n \in PlainNotifs :
       del.pc # "done" /\ WriteBegin(w, s, n)
  \/ \E w \in Writers : WriteSteps(w)
  \/ pc["main"] = "idle" /\ DeleteBegin("t1")
  \/ DeleteSteps
  \/ \E r0 \in DeleteReadInputs : del.pc = "done" /\ Subscribe(r0)
  \/ QSteps("main")
  \/ Close

SpecDelete == InitDelete /\ [][NextDelete]_vars

(***************************************************************************)
(* Sample reads with redundancy suppression over one cache; a goroutine    *)
(* writes between the passes                                               *)
(***************************************************************************)
InitSample ==
  /\ InitRead
  /\ InitRegistry({"s1"}, [s \in Subs |-> IF s = "s1" THEN {"t1"} ELSE {}],
                  [s \in Subs |-> IF s = "s1" THEN FilledStore({<<"a">>})
                                  ELSE EmptyStore])

SampleInputs ==
  {ReadOpts("sample", sub, ps, 0, uo, TRUE) :
     sub \in {"", "s1"}, ps \in OnePath \cup OverlappingPaths,
     uo \in BOOLEAN}

SampleNotifs == {OneUpdate("t1", p, v) : p \in {<<"a">>, <<"b">>}, v \in Vals}

NoWriteRunning == \A w \in Writers : wr[w].pc \in {"idle", "done"}

NoPassRunning == pc["main"] \in {"idle", "s_ticker", "s_select"}

NextSample ==
  \/ \E r0 \in SampleInputs : NoWriteRunning /\ Subscribe(r0)
  \/ QSteps("main")
  \/ \E s \in Subs : QSend("main", s) \/ QMake("main", s)
  \/ STicker("main")
  \/ SDone("main")
  \/ NoWriteRunning /\ STick("main")
  \/ Close
  \/ Cancel
  \/ Tick
  \/ \E n \in SampleNotifs : NoPassRunning /\ WriteBegin("w1", "s1", n)
  \/ WriteSteps("w1")

SpecSample == InitSample /\ [][NextSample]_vars

(***************************************************************************)
(* Reads of every mode, while a goroutine writes, time passes and the      *)
(* context is cancelled                                                    *)
(***************************************************************************)
FailingPaths == {<< <<"a">>, BadPath >>}

ReadInputs ==
  {ReadOpts("once", "", ps, 0, FALSE, sr) :
     ps \in {<< <<"*">> >>} \cup FailingPaths, sr \in BOOLEAN}
  \cup {ReadOpts("sample", "", << <<"a">> >>, 0, uo, FALSE) : uo \in BOOLEAN}
  \cup {ReadOpts("onchange", "", ps, 0, FALSE, FALSE) :
          ps \in DisjointPaths \cup FailingPaths}
  \cup {ReadOpts("onchange", "", ps, 1, FALSE, FALSE) :
          ps \in {<< <<"a">> >>} \cup FailingPaths}

ReadSteps ==
  \/ \E r \in Routines : QSteps(r) \/ SampleSteps(r)
  \/ \E r \in Routines, s \in Subs : QErr(r, s)
  \/ \E s \in Subs : QSend("main", s) \/ QMake("main", s)
  \/ OnChangeSteps
  \/ \E s \in Subs : GErr(s)
  \/ Close

Next ==
  \/ \E r0 \in ReadInputs : Subscribe(r0)
  \/ ReadSteps
  \/ Cancel
  \/ ticks < MaxHeartbeats /\ Tick
  \/ \E n \in ChangeNotifs :
       nwrites < MaxReadWrites /\ WriteBegin("w1", "s1", n)
  \/ WriteSteps("w1")
  \/ WriteDeliver("w1")

Spec == InitPair /\ [][Next]_vars

(***************************************************************************)
(* The same, with every goroutine scheduled and the consumer receiving:    *)
(* a routine that can take a step eventually takes one                     *)
(***************************************************************************)
LiveInputs ==
  {ReadOpts("once", "", << <<"*">> >>, 0, FALSE, FALSE),
   ReadOpts("sample", "", << <<"a">> >>, 0, FALSE, FALSE),
   ReadOpts("onchange", "", << <<"a">>, <<"b">> >>, 0, FALSE, FALSE),
   ReadOpts("onchange", "", << <<"a">> >>, 1, FALSE, FALSE)}

LiveNotifs == {OneUpdate("t1", <<"a">>, 2)}

MainSteps ==
  \/ QSteps("main")
  \/ SampleSteps("main")
  \/ OcSnap
  \/ OcJoin
  \/ Close

GoroutineSteps(s) ==
  \/ QSteps(s)
  \/ SampleSteps(s)
  \/ GHas(s) \/ GPath(s) \/ GBase(s) \/ GReg(s) \/ GWait(s) \/ GRemove(s)

WriterSteps == WriteSteps("w1") \/ WriteDeliver("w1")

NextLive ==
  \/ \E r0 \in LiveInputs : Subscribe(r0)
  \/ MainSteps
  \/ \E s \in Subs : GoroutineSteps(s)
  \/ Cancel
  \/ ticks < MaxHeartbeats /\ Tick
  \/ \E n \in LiveNotifs :
       nwrites < MaxReadWrites /\ WriteBegin("w1", "s1", n)
  \/ WriterSteps

Fairness ==
  /\ WF_vars(MainSteps)
  /\ \A s \in Subs : WF_vars(GoroutineSteps(s))
  /\ WF_vars(WriterSteps)

SpecLive == InitPair /\ [][NextLive]_vars /\ Fairness

(***************************************************************************)
(* An on-change read whose consumer stops receiving, while two goroutines  *)
(* write and DeleteTarget runs                                             *)
(***************************************************************************)
StallInputs == {ReadOpts("onchange", "", << <<"a">> >>, 0, FALSE, FALSE)}

NextStall ==
  \/ \E r0 \in StallInputs : Subscribe(r0)
  \/ OnChangeSteps
  \/ Close
  \/ Cancel
  \/ ConsumerStops
  \/ \E w \in Writers, n \in LiveNotifs : WriteBegin(w, "s1", n)
  \/ \E w \in Writers : WriteSteps(w) \/ WriteDeliver(w)
  \/ DeleteBegin("t2")
  \/ DeleteSteps

SpecStall == InitPair /\ [][NextStall]_vars

(***************************************************************************)
(* read (Read, ReadAll) over a registry filled by earlier writes, while a  *)
(* goroutine writes                                                        *)
(***************************************************************************)
Times == 0..MaxTime

\* s1 holds t1/a and t1/b, s2 is absent or holds t1/a; the notifications of
\* the leaves under a have any timestamp
AggStore(s) ==
  [k \in Keys |->
     IF s = "s1" /\ k \in {<<"t1", <<"a">>>>, <<"t1", <<"b">>>>} THEN 1
     ELSE IF s = "s2" /\ k = <<"t1", <<"a">>>> THEN 2
     ELSE NoVal]

AggStamps(x, z) ==
  [s \in Subs |->
     [k \in Keys |->
        IF k = <<"t1", <<"a">>>> THEN (IF s = "s1" THEN x ELSE z)
        ELSE MaxTime - 1]]

InitAggregate ==
  /\ InitDispatcher
  /\ InitQuiet
  /\ \E e \in 0..2 : InitAgg(e)
  /\ \E c \in {{"s1"}, Subs}, x \in Times, z \in Times :
       InitStamped(c, [s \in Subs |-> IF s \in c THEN {"t1"} ELSE {}],
                   [s \in Subs |-> IF s \in c THEN AggStore(s)
                                   ELSE EmptyStore],
                   AggStamps(x, z))

\* the notifications written while read runs
AggNotifs ==
  {[OneUpdate("t1", <<"a">>, 2) EXCEPT !.timestamp = ts] : ts \in {0, MaxTime}}

NextAggregate ==
  \/ \E sub \in {"", "*", "s1"}, t \in {"t1", "t2", "*"},
        p \in {<<>>, <<"a">>, BadPath}, now \in {MaxTime - 1, MaxTime} :
       ReadBegin(sub, t, p, now)
  \/ AggSnap
  \/ \E s \in Subs : ProdQuery(s) \/ ProdVisit(s)
  \/ MergeAppend
  \/ MergeDone
  \/ AggClose
  \/ AggReturn
  \/ \E n \in AggNotifs :
       nwrites < MaxReadWrites /\ WriteBegin("w1", "s1", n)
  \/ WriteSteps("w1")

SpecAggregate == InitAggregate /\ [][NextAggregate]_vars

(***************************************************************************)
(* The UDP output: Init, messages written, the context cancelled or Close  *)
(* called; every goroutine is scheduled and the limiter ticks while it     *)
(* runs                                                                    *)
(***************************************************************************)
InitSteps == UInitWatch \/ UInitDerive \/ UInitStart

WatcherSteps == WatchEval \/ WatchDone \/ WatchClose

WorkerSteps ==
  \/ \E ok \in BOOLEAN : UDial(ok) \/ USend(ok)
  \/ USleep
  \/ USelectDone
  \/ USelectTake
  \/ ULimit
  \/ UDeferredClose

NextUdp ==
  \/ \E rate \in {0, 1}, size \in 1..MaxBufferSize : UInit(rate, size)
  \/ InitSteps
  \/ WatcherSteps
  \/ WorkerSteps
  \/ UClose
  \/ UCancel
  \/ UTick
  \/ UWrite

UdpFairness ==
  /\ WF_vars(InitSteps)
  /\ WF_vars(WatcherSteps)
  /\ WF_vars(WorkerSteps)
  /\ WF_vars(UTick)

SpecUdp == InitEmpty /\ [][NextUdp]_vars /\ UdpFairness

(***************************************************************************)
(* Properties of the ingest path                                           *)
(***************************************************************************)

\* a notification Write must drop: no target, or no prefix path elements
\* and an update without path
MalformedNotif(n) ==
  \/ n.target = ""
  \/ /\ n.prefix = <<>>
     /\ \E k \in DOMAIN n.update : n.update[k].path = <<>>

\* C9: a Write of a notification with an empty target, or with no prefix
\* path elements and an update with an empty path, returns at once: every
\* step of that Write ends the call, attempts no store write and leaves the
\* registry, the targets of every store and the contents of every store
\* unchanged.
C9_RejectedWriteChangesNothing ==
  [][\A w \in Writers :
       (wr'[w] # wr[w] /\ MalformedNotif(wr'[w].notif))
         => /\ wr'[w].pc = "done"
            /\ wr'[w].attempts = 0
            /\ UNCHANGED <<caches, targets, store>>]_vars

\* a Write of a notification with a target, no prefix and an update without
\* path has returned while the registry holds a cache
C9_Witness ==
  \E w \in Writers :
    /\ wr[w].pc = "done"
    /\ wr[w].notif.target # ""
    /\ MalformedNotif(wr[w].notif)
    /\ caches # {}

NonNil(u) == u.val # NoVal

\* C10: when a Write of a valid notification has returned, exactly one
\* store write was attempted, on the store of the named subscription and
\* with the notification stripped of its nil-valued updates, unless the
\* stripped notification has neither updates nor deletions: then no store
\* write was attempted; and no Write ever attempts more than one.
C10_AcceptedWriteStoredOnce ==
  \A w \in Writers :
    /\ wr[w].attempts <= 1
    /\ (wr[w].pc = "done" /\ wr[w].sub # "" /\ ~MalformedNotif(wr[w].notif))
         => LET kept == SelectSeq(wr[w].notif.update, NonNil)
            IN IF kept = <<>> /\ wr[w].notif.delete = <<>>
               THEN wr[w].attempts = 0
               ELSE /\ wr[w].attempts = 1
                    /\ wr[w].on = wr[w].sub
                    /\ wr[w].sent = [wr[w].notif EXCEPT !.update = kept]

\* a Write has returned after writing a notification from which a
\* nil-valued update was stripped and which kept an update
C10_Witness ==
  \E w \in Writers :
    /\ wr[w].pc = "done"
    /\ wr[w].attempts = 1
    /\ wr[w].sent.update # <<>>
    /\ Len(wr[w].sent.update) < Len(wr[w].notif.update)

(***************************************************************************)
(* Properties of Once reads                                                *)
(***************************************************************************)

\* the caches the subscription filter of the read selects
SelectedByFilter == IF ro.sub = "" THEN caches ELSE caches \cap {ro.sub}

\* the selected caches that hold the target with a leaf under a requested path
HoldingTarget ==
  {s \in SelectedByFilter :
     /\ ro.target \in targets[s]
     /\ \E j \in DOMAIN ro.paths, k \in Keys :
          /\ k[1] = ro.target
          /\ store[s][k] # NoVal
          /\ IsPrefixOf(ro.paths[j], k[2])}

NamesEmitted == {it.name : it \in BagToSet(out)}

ItemsOfTarget(t) == {it \in BagToSet(out) : ~it.err /\ it.key[1] = t}

\* C6 as stated: a Once read started after DeleteTarget(t) returned emits
\* no notification for t, whatever Write calls began before DeleteTarget
\* returned, when no Write for t begins after it returned.
C6_NoResultAfterDelete ==
  (del.pc = "done" /\ ro.mode = "once") => ItemsOfTarget(del.name) = {}

\* C6, amended: a Once read started after DeleteTarget(t) returned emits no
\* notification for t when no Write for t took the registry lock (lines
\* 119-135, where the cache is created and the target added) after
\* DeleteTarget took its snapshot of the registry.
C6_NoResultAfterDeleteUnlessReadded ==
  (del.pc = "done" /\ ro.mode = "once" /\ ~del.late)
    => ItemsOfTarget(del.name) = {}

\* the read has completed after a DeleteTarget that ran while a Write for
\* the target was under way: the Write added the target before the
\* snapshot and its store write found the target removed
C6_Witness ==
  /\ del.pc = "done"
  /\ ~del.late
  /\ pc["main"] = "closed"
  /\ \E w \in Writers : wr[w].pc = "done" /\ wr[w].failed
  /\ ItemsOfTarget(del.name) = {}

(***************************************************************************)
(* Properties of Sample reads                                              *)
(***************************************************************************)

\* the items a step adds to the ones received from the channel
NewItems == {it \in BagToSet(out') : CopiesIn(it, out') > CopiesIn(it, out)}

EmittedFor(k) == {it \in BagToSet(out) : ~it.err /\ it.key = k}

RECURSIVE SumCopies(_)
SumCopies(S) ==
  IF S = {} THEN 0
  ELSE LET it == CHOOSE x \in S : TRUE
       IN CopiesIn(it, out) + SumCopies(S \ {it})

\* the leaves of the cache under the target and the paths of the read
Requested(s) ==
  {k \in Keys : /\ k[1] = ro.target
                /\ store[s][k] # NoVal
                /\ \E j \in DOMAIN ro.paths : IsPrefixOf(ro.paths[j], k[2])}

\* C4: in a Sample read with suppression over one cache, with the writes
\* falling between the passes: an update is emitted only when its value
\* differs from the value last emitted for its key (or none was), and
\* becomes the value last emitted; when a pass ends, the value last emitted
\* for every stored key under the requested paths is the stored value; so a
\* value that stays the same over consecutive passes is emitted in the
\* first only, and a changed value is emitted once. No key is emitted more
\* often than once plus the number of writes.
C4_SuppressionAcrossPasses ==
  /\ [][/\ \A it \in NewItems :
            lastSent[it.key] # it.val /\ lastSent'[it.key] = it.val
        /\ lastSent' # lastSent => NewItems # {}
        /\ (pc["main"] = "q_wait" /\ pc'["main"] # "q_wait")
             => \A k \in Requested("s1") : lastSent'[k] = store["s1"][k]]_vars
  /\ [](\A k \in Keys : SumCopies(EmittedFor(k)) <= 1 + nwrites)

\* three passes over a key written once: the first value and the written
\* value were emitted once each, and the read waits for the next tick
C4_Witness ==
  /\ pc["main"] = "s_select"
  /\ ~ro.updatesOnly
  /\ ticks = 2
  /\ ~tickC["main"]
  /\ nwrites = 1
  /\ lastSent[<<"t1", <<"a">>>>] = 2
  /\ store["s1"][<<"t1", <<"a">>>>] = 2
  /\ SumCopies(EmittedFor(<<"t1", <<"a">>>>)) = 2

(***************************************************************************)
(* Properties of on-change reads                                           *)
(***************************************************************************)

ChangeItems(id) ==
  {it \in BagToSet(out) : it.via = "change" /\ it.wid = id}

C3_SilentAfterCancel ==
  [][\A it \in NewItems : it.by \in Routines => ~obs[it.by]]_vars

HeartbeatItems(s, k) ==
  {it \in BagToSet(out) : it.via = "tick" /\ it.name = s /\ it.key = k}

\* C5 as stated: with no write, the value cached for a key in a cache is
\* re-emitted by the heartbeat at most once per interval elapsed.
C5_OncePerHeartbeat ==
  \A s \in Subs, k \in Keys : SumCopies(HeartbeatItems(s, k)) <= ticks

(***************************************************************************)
(* Properties of the output channel                                        *)
(***************************************************************************)

\* C1: the output channel of a read is closed at most once, no item is
\* sent on it after it was closed, and when it is closed every routine
\* that can send on it is gone: the on-change goroutines and the goroutines
\* of handleSingleQuery have returned, no registration of the read is left
\* in a matcher and no callback of a Write is running.
C1_ClosedAfterProducers ==
  /\ chClosed <= 1
  /\ ~sendOnClosed
  /\ chClosed = 1 =>
       /\ \A s \in Subs : pc[s] \in {"off", "done"}
       /\ \A r \in Routines, s \in Subs : q[r][s].pc \in {"off", "done"}
       /\ \A s \in Subs : queries[s] = {}
       /\ \A w \in Writers : wr[w].pend = <<>>

\* the channel of an on-change read with heartbeat is closed after a
\* callback of a Write and a heartbeat pass sent on it
C1_Witness ==
  /\ chClosed = 1
  /\ ro.mode = "onchange"
  /\ ro.hb = 1
  /\ \E it \in BagToSet(out) : it.via = "change"
  /\ \E it \in BagToSet(out) : it.via = "tick"

(***************************************************************************)
(* Termination of reads                                                    *)
(***************************************************************************)

\* the read has stopped its tickers, released its registrations and closed
\* its channel
Released ==
  /\ chClosed = 1
  /\ \A r \in Routines : ticker[r] # "on"
  /\ \A s \in Subs : queries[s] = {}

\* C8: with the consumer receiving, a Sample or OnChange read whose context
\* is cancelled eventually has stopped its tickers, released every
\* registration and closed its channel; a Once read eventually closes its
\* channel without cancellation.
C8_CancellationReleases ==
  (ctxDone \/ ro.mode = "once") ~> Released

\* an on-change read with heartbeat was cancelled while a ticker ran and a
\* pattern was registered, and has closed its channel
C8_Witness ==
  /\ Released
  /\ ctxDone
  /\ ro.mode = "onchange"
  /\ ro.hb = 1
  /\ \E r \in Routines : ticker[r] = "stopped"
(***************************************************************************)
(* Properties of read                                                      *)
(***************************************************************************)

\* the notification is older than the time of the read minus the window
OlderThanWindow(l) == l.ts < rd.now - expiration

NotSkipped(l) == expiration = 0 \/ ~OlderThanWindow(l)

\* C11: when read returns, every producer goroutine has finished, the
\* channel is closed and the merge goroutine has drained it; the returned
\* mapping holds, under each subscription name, the notifications the query
\* of that store produced, each once and in that order, without the ones
\* older than the time of the read minus the expiration when an expiration
\* is configured, and nothing under another name.
C11_AggregatorComplete ==
  rd.pc = "returned" =>
    /\ \A s \in Subs : prod[s].pc \in {"off", "done"}
    /\ rd.closed
    /\ merge.pc = "done"
    /\ rd.result = notifications
    /\ \A s \in Subs :
         rd.result[s] = SelectSeq(prod[s].visited, NotSkipped)
    /\ \A s \in Subs \ getCaches({rd.sub}) : rd.result[s] = <<>>

\* read has returned notifications of two caches with an expiration
\* configured, after skipping an expired one
C11_Witness ==
  /\ rd.pc = "returned"
  /\ expiration > 0
  /\ \A s \in Subs : rd.result[s] # <<>>
  /\ \E s \in Subs : Len(rd.result[s]) < Len(prod[s].visited)
(***************************************************************************)
(* Properties of redundancy suppression                                    *)
(***************************************************************************)

\* the stored keys under the target and the paths of the read, in the
\* caches it selects
RequestedKeys == UNION {Requested(s) : s \in HoldingTarget}

\* C12 as stated: what an earlier read emitted does not change what a later
\* read emits: a Once read that has completed over an unchanged registry
\* has emitted every stored key under its target and paths, whether it is
\* the first read or a later one, with the same ReadOpts or new ones.
C12_ReadsIndependent ==
  (ro.mode = "once" /\ pc["main"] = "closed")
    => \A k \in RequestedKeys : EmittedFor(k) # {}

EqualItems(k, v) == {it \in BagToSet(out) : ~it.err /\ it.key = k /\ it.val = v}

\* C13 as stated: in one Once pass with suppression over several caches no
\* key is emitted twice with the same value: caches that hold the same key
\* with equal values yield one emission.
C13_OneEmissionPerValue ==
  (ro.mode = "once" /\ ro.suppress /\ again = 0)
    => \A k \in Keys, v \in Vals : SumCopies(EqualItems(k, v)) <= 1
(***************************************************************************)
(* Properties of on-change reads with several paths, with updatesOnly and  *)
(* with failing paths                                                      *)
(***************************************************************************)

\* C14 as stated: while the goroutine of a cache waits in the heartbeat loop
\* with the context live, a change registration is active for every
\* requested path.
C14_AllPathsRegisteredWhileLive ==
  \A s \in Subs :
    (ro.mode = "onchange" /\ pc[s] = "s_select" /\ ~ctxDone)
      => /\ nreg[s] = Len(ro.paths)
         /\ \A j \in DOMAIN ro.paths : Registration(s, j) \in queries[s]

\* C15 as stated: an on-change read with updatesOnly emits nothing before
\* the first interval has elapsed and the first write was made.
C15_NoBaselineWithUpdatesOnly ==
  (ro.mode = "onchange" /\ ro.updatesOnly /\ ticks = 0 /\ nwrites = 0)
    => out = EmptyBag

\* C16 as stated: a failure for one path of a subscription leaves the
\* registrations made for its other paths active until the context ends: no
\* registration of an on-change read is removed while the context is live.
C16_ErrorKeepsRegistrations ==
  [][(ro.mode = "onchange" /\ ~ctxDone)
       => \A s \in Subs : queries[s] \subseteq queries'[s]]_vars

(***************************************************************************)
(* Properties of the registry                                              *)
(***************************************************************************)

\* a notification Write does not store: malformed, or without updates and
\* deletions once the nil-valued updates are stripped
DroppedNotif(n) ==
  \/ MalformedNotif(n)
  \/ SelectSeq(n.update, NonNil) = <<>> /\ n.delete = <<>>

\* C17 as stated: no step of a Write that is dropped creates a registry
\* entry or adds a target to a store.
C17_DroppedWriteCreatesNothing ==
  [][\A w \in Writers :
       (wr'[w] # wr[w] /\ DroppedNotif(wr'[w].notif))
         => UNCHANGED <<caches, targets>>]_vars

\* C18: under concurrent Write, getCaches and DeleteTarget calls, at most
\* one cache instance is ever created for a subscription name and the
\* registry holds exactly the names an instance was created for; no step
\* removes a name from the registry; and Write adds a target to a store
\* only when the store does not have it.
C18_RegistryUniqueAndMonotone ==
  /\ [](\A s \in Subs : created[s] <= 1 /\ (s \in caches <=> created[s] = 1))
  /\ [][/\ caches \subseteq caches'
        /\ \A w \in Writers :
             (wr[w].pc = "crit" /\ wr'[w].pc = "store" /\ wr'[w].added)
               => wr[w].notif.target \notin targets[wr[w].sub]]_vars

\* two Write calls for the same new name have returned, one of which
\* created the cache and added the target, and DeleteTarget has returned
C18_Witness ==
  /\ del.pc = "done"
  /\ created = [s \in Subs |-> 1]
  /\ \A w \in Writers : wr[w].pc = "done" /\ wr[w].sub = "s2"
  /\ \E w \in Writers : wr[w].added
  /\ \E w \in Writers : ~wr[w].added

(***************************************************************************)
(* Properties of the registry lock                                         *)
(***************************************************************************)

\* the routine is in a call of the store (write, query, removal) or is
\* sending on the channel of the read
InStoreOrSending(h) ==
  \/ h \in Writers /\ wr[h].pc \in {"store", "upd", "deliver"}
  \/ h = "del" /\ del.pc = "rm"
  \/ h \in Routines /\ pc[h] \in {"g_has", "g_path", "g_base", "g_err", "g_reg"}

\* a Write is blocked sending to the consumer that stopped receiving
BlockedSending(w) == stalled /\ chClosed = 0 /\ wr[w].pc = "deliver"

\* C19: no routine holds the registry lock while it writes to a store,
\* queries a store, removes a target or sends on the channel of a read: the
\* lock is held by a Write only in its critical section and by getCaches
\* only while it copies the registry; so whenever the lock is held, also
\* after the consumer stopped receiving, its holder can release it.
C19_LockDiscipline ==
  /\ mu \in {NoOne, "del"} \cup Writers
  /\ \A h \in Writers \cup {"del"} \cup Routines : InStoreOrSending(h) => mu # h
  /\ \A w \in Writers : mu = w => wr[w].pc = "crit" /\ ENABLED WriteCrit(w)
  /\ mu = "del" => del.pc = "snap" /\ ENABLED DeleteSnap

\* while a Write is blocked sending to the consumer that stopped, a later
\* Write has passed its critical section and DeleteTarget has returned
C19_Witness ==
  \E w, v \in Writers :
    /\ BlockedSending(w)
    /\ wr[v].id > wr[w].id
    /\ wr[v].pc \in {"store", "upd", "done"}
    /\ del.pc = "done"
    /\ mu = NoOne

(***************************************************************************)
(* Properties of the UDP output                                            *)
(***************************************************************************)

\* C20 as stated: once the context passed to Init is cancelled or Close was
\* called, the worker started by Init eventually has returned, whatever it
\* was doing: dialling, sleeping before a redial, waiting in the select or
\* waiting for the limiter.
C20_WorkerShutsDown ==
  (upc.init = "done" /\ (uctx.parent \/ uctx.cancelled))
    ~> upc.worker = "done"
====
